---- MODULE Spec2Model ----
(***************************************************************************)
(* A model of the Mineral voxel client: the chunk manager of               *)
(* world/world.go (chunk map, loading tasks, load/unload by radius), the   *)
(* coordinate conversion ToChunkSpace, and the entity movement step of     *)
(* entity/entity.go.                                                       *)
(***************************************************************************)
EXTENDS Integers, Sequences, FiniteSets, TLC

(***************************************************************************)
(* Bounds of the model.                                                    *)
(***************************************************************************)
\* The chunk map is modelled on a window of the (p, q) plane, the chunks
\* (0, 0) .. (PMax, 0); chunks outside the window are not tracked.
PMax == 3
\* RenderRadius is drawn from 1..MaxRadius when the world is created.
MaxRadius == 3
\* The loading list is never pruned by the code; tasks are spawned only while
\* the list has at most MaxTasks entries.
MaxTasks == 5
\* World coordinates handed to ToChunkSpace: -MaxCoord..MaxCoord and the same
\* range around 2^24, where float32 stops holding every integer.
MaxCoord == 40
\* Calls of Move, Look and the movement step on the entity in a run.
MaxCalls == 5
\* Calls of resolveCollision on one pair of boxes, and the distances between
\* the centres of the two boxes, in eighths of a block.
MaxResolves == 2
MaxDist == 12
\* Ticks of the game, and iterations of the main loop.
MaxFrames == 3

Coords == (0..PMax) \X {0}

\* Chunk coordinates handed to GenChunksAround: the chunk the player is in,
\* which stays put or moves between two adjacent chunks.
Centers == {<<0, 0>>, <<1, 0>>}

(***************************************************************************)
(* Program constants.                                                      *)
(***************************************************************************)
ChunkWidth == 16
ChunkHeight == 256
ChunkDepth == 16
deleteRadiusFactor == 2
valuesPerVertex == 8
BlockAir == 0
BlockStone == 2

VARIABLES
    RenderRadius,   \* World.RenderRadius
    chunks,         \* World.chunks: coordinate -> chunk (NilChunk when absent)
    loading,        \* World.loading: one entry per channel/goroutine
    destroyed,      \* TRUE once World.Destroy has run
    freed,          \* chunks on which Chunk.destroy has been called
    last,           \* name of the operation that produced the current state
    center,         \* the (p, q) of the latest GenChunksAround call
    wpos,           \* a world coordinate <<wx, wy, wz>> handed to ToChunkSpace
    cspace,         \* the <<p, q, x, y, z>> ToChunkSpace returned, <<>> before
    entity,         \* the Entity (AABB, Rotation, basis, moveDelta)
    moves,          \* Move calls so far
    ticks,          \* movement steps so far
    looks,          \* Look calls so far
    pending,        \* the sum of the vectors of the Move calls since the
                    \* last movement step, in the order of the calls
    box,            \* an AABB that is tested and resolved against obstacle
    obstacle,       \* the AABB of a block
    axis,           \* the axis of the resolution: 1, 2, 3 for x, y, z
    hits,           \* calls of resolveCollision on box so far
    overlap,        \* the results of the calls of Intersects on box so far
    mgrid,          \* a block grid handed to the mesher
    mcell,          \* a cell (x, y, z) of it
    mfaces,         \* the results of genVerticesForBlock on that cell
    mcount,         \* the results of genVertices on the grid
    gpc,            \* the position of the game within Game.Update
    fed,            \* the Move and Look calls made so far in the current tick
    lpc,            \* the position of main within an iteration of its loop
    lag,            \* main's lag, in nanoseconds
    lag0,           \* the lag at the start of the inner update loop
    nupd,           \* the calls of Game.Update in the current iteration
    frames          \* the calls of Game.Render so far

worldVars == <<RenderRadius, chunks, loading, destroyed, freed, center>>
spaceVars == <<wpos, cspace>>
entityVars == <<entity, moves, ticks, looks, pending>>
boxVars == <<box, obstacle, axis, hits, overlap>>
meshVars == <<mgrid, mcell, mfaces, mcount>>
gameVars == <<gpc, fed>>
loopVars == <<lpc, lag, lag0, nupd, frames>>
vars == <<RenderRadius, chunks, loading, destroyed, freed, last, center,
          wpos, cspace, entity, moves, ticks, looks, pending,
          box, obstacle, axis, hits, overlap, mgrid, mcell, mfaces, mcount,
          gpc, fed, lpc, lag, lag0, nupd, frames>>

(***************************************************************************)
(* Block data.  A block grid is the sequence of its layers y = 0, 1, ...   *)
(* up to the highest layer that is not air; every layer above is air.  A   *)
(* layer holds the block type fill in every cell, except for the cells     *)
(* (x, z) of the set cells, which hold the block type type.                *)
(***************************************************************************)
NilBlocks == <<>>

Layer(b) == [fill |-> b, cells |-> {}, type |-> b]

\* Block properties (visible, collidable, transparent) by block type.
Visible(b) == b # BlockAir
Collidable(b) == b # BlockAir
Transparent(b) == b = BlockAir

\* BlockData.At: the block of the cell, or -1 (the nil pointer) outside of
\* the grid.
At(blocks, x, y, z) ==
    IF x < 0 \/ x >= ChunkWidth \/ y < 0 \/ y >= ChunkHeight
       \/ z < 0 \/ z >= ChunkDepth
    THEN -1
    ELSE IF y + 1 > Len(blocks) THEN BlockAir
    ELSE IF <<x, z>> \in blocks[y + 1].cells THEN blocks[y + 1].type
    ELSE blocks[y + 1].fill

genBlocks(p, q) == <<Layer(BlockStone), Layer(BlockStone), Layer(BlockStone)>>

\* faceNormals, indexed by FaceLeft, FaceRight, FaceTop, FaceBottom,
\* FaceFront, FaceBack.
faceNormals ==
    <<<<-1, 0, 0>>, <<1, 0, 0>>, <<0, 1, 0>>, <<0, -1, 0>>, <<0, 0, 1>>,
      <<0, 0, -1>>>>

\* Variant: no face at the border of the chunk.
genVerticesForBlock_inner(blocks, x, y, z) ==
    LET current == At(blocks, x, y, z)
    IN IF current = -1 \/ ~Visible(current) THEN {}
       ELSE {face \in 1..Len(faceNormals) :
                LET neighbour == At(blocks, x + faceNormals[face][1],
                                    y + faceNormals[face][2],
                                    z + faceNormals[face][3])
                IN neighbour # -1 /\ Transparent(neighbour)}

\* genVerticesForBlock: the faces whose vertices are added for the block of
\* cell (x, y, z).
genVerticesForBlock(blocks, x, y, z) ==
    LET current == At(blocks, x, y, z)
    IN IF current = -1 \/ ~Visible(current) THEN {}
       ELSE {face \in 1..Len(faceNormals) :
                LET neighbour == At(blocks, x + faceNormals[face][1],
                                    y + faceNormals[face][2],
                                    z + faceNormals[face][3])
                IN neighbour = -1 \/ Transparent(neighbour)}

\* The faces of the cells k, k + 1, ..., n - 1 of layer y, x running
\* slowest.
RECURSIVE FacesOfCells(_, _, _, _)
FacesOfCells(blocks, y, k, n) ==
    IF k >= n THEN 0
    ELSE IF k + 1 = n
    THEN Cardinality(genVerticesForBlock(blocks, k \div ChunkDepth, y,
                                         k % ChunkDepth))
    ELSE FacesOfCells(blocks, y, k, (k + n) \div 2)
         + FacesOfCells(blocks, y, (k + n) \div 2, n)

\* A layer all of whose cells hold the same block type.
Uniform(blocks, y) ==
    y < 0 \/ y + 1 > Len(blocks) \/ blocks[y + 1].cells = {}

\* Number of faces genVerticesForBlock emits for the blocks of layer y: the
\* sum over the cells of the layer, in closed form where the layer and the
\* layers next to it are uniform.
FacesOfLayer(blocks, y) ==
    LET cur == At(blocks, 0, y, 0)
        open(n) == n = -1 \/ Transparent(n)
        up == At(blocks, 0, y + 1, 0)
        down == At(blocks, 0, y - 1, 0)
    IN IF ~(Uniform(blocks, y) /\ Uniform(blocks, y + 1)
            /\ Uniform(blocks, y - 1))
       THEN FacesOfCells(blocks, y, 0, ChunkWidth * ChunkDepth)
       ELSE IF ~Visible(cur) THEN 0
       ELSE (IF open(up) THEN ChunkWidth * ChunkDepth ELSE 0)
            + (IF open(down) THEN ChunkWidth * ChunkDepth ELSE 0)
            + 2 * ChunkDepth + 2 * ChunkWidth
            + (IF Transparent(cur)
               THEN 2 * (ChunkWidth - 1) * ChunkDepth
                    + 2 * (ChunkDepth - 1) * ChunkWidth
               ELSE 0)

\* The faces of the layers y, y + 1, ..., n - 1.
RECURSIVE SumFaces(_, _, _)
SumFaces(blocks, y, n) ==
    IF y >= n THEN 0
    ELSE IF y + 1 = n THEN FacesOfLayer(blocks, y)
    ELSE SumFaces(blocks, y, (y + n) \div 2)
         + SumFaces(blocks, (y + n) \div 2, n)

\* genVertices: the length of the float slice (6 vertices per face).  The
\* layers above the stored ones hold air and add nothing.
genVertices(blocks) == SumFaces(blocks, 0, Len(blocks)) * 6 * valuesPerVertex

(***************************************************************************)
(* Chunks.                                                                 *)
(***************************************************************************)
\* by: the loading entry whose result created the chunk (its identity);
\* vbo: the loading entry whose vertex data the buffer holds.
NilChunk == [by |-> 0, Blocks |-> NilBlocks, numVertices |-> 0, vbo |-> 0]

FindChunk(ch, p, q) == IF <<p, q>> \in Coords THEN ch[<<p, q>>] ELSE NilChunk

\* Variant: the vertices of the result are not uploaded.
uploadChunk_keep(chunk, i, vertices) == chunk

uploadChunk(chunk, i, vertices) ==
    [chunk EXCEPT !.numVertices = vertices \div valuesPerVertex, !.vbo = i]

newChunk(i) == [NilChunk EXCEPT !.by = i]

\* A new entry of World.loading.
Task(kind, p, q, blocks) ==
    [kind |-> kind, p |-> p, q |-> q, pc |-> "run", closed |-> FALSE,
     blocks |-> blocks, vertices |-> 0, outcome |-> "none", src |-> 0]

InFlight(t) == t.pc \in {"run", "send"}

(***************************************************************************)
(* World.genChunk, World.regenChunk                                        *)
(***************************************************************************)
genChunk(ch, ld, p, q) ==
    IF <<p, q>> \notin Coords THEN ld
    ELSE IF FindChunk(ch, p, q) # NilChunk THEN ld
    ELSE Append(ld, Task("load", p, q, NilBlocks))

regenChunk(p, q) ==
    /\ ~destroyed
    /\ Len(loading) < MaxTasks
    /\ LET chunk == FindChunk(chunks, p, q)
       IN IF chunk = NilChunk \/ chunk.Blocks = NilBlocks
          THEN loading' = loading
          ELSE loading' = Append(loading,
                                 [Task("regen", p, q, chunk.Blocks)
                                     EXCEPT !.src = chunk.by])
    /\ last' = "regenChunk"
    /\ UNCHANGED <<RenderRadius, chunks, destroyed, freed, center, spaceVars,
                 entityVars, boxVars, meshVars, gameVars, loopVars>>

(***************************************************************************)
(* World.GenChunksAround                                                   *)
(***************************************************************************)
Dist2(pos, p, q) == (pos[1] - p) * (pos[1] - p) + (pos[2] - q) * (pos[2] - q)

Evicted(ch, p, q) ==
    {pos \in Coords : /\ ch[pos] # NilChunk
                      /\ Dist2(pos, p, q) > RenderRadius + deleteRadiusFactor}

\* Variant: the rim of the circle is left out.
InRenderRadius_strict(dp, dq) == dp * dp + dq * dq < RenderRadius * RenderRadius

InRenderRadius(dp, dq) == dp * dp + dq * dq <= RenderRadius * RenderRadius

\* The two nested loops over dp and dq, k counting the iterations.  The
\* loops are cut short once more than MaxTasks channels exist: the step is
\* then outside of the bound of GenChunksAround.
RECURSIVE GenLoop(_, _, _, _, _)
GenLoop(k, ch, ld, p, q) ==
    LET side == 2 * RenderRadius + 1
        dp == (k \div side) - RenderRadius
        dq == (k % side) - RenderRadius
    IN IF k >= side * side \/ Len(ld) > MaxTasks THEN ld
       ELSE GenLoop(k + 1, ch,
                    IF InRenderRadius(dp, dq)
                    THEN genChunk(ch, ld, p + dp, q + dq) ELSE ld,
                    p, q)

\* Variant: the reconcile pass evicts and never starts a load.
GenChunksAround_evictOnly(p, q) ==
    /\ ~destroyed
    /\ LET gone == Evicted(chunks, p, q)
       IN /\ chunks' = [pos \in Coords |-> IF pos \in gone THEN NilChunk
                                           ELSE chunks[pos]]
          /\ freed' = freed \cup {chunks[pos].by : pos \in gone}
    /\ last' = "GenChunksAround"
    /\ center' = <<p, q>>
    /\ UNCHANGED <<RenderRadius, loading, destroyed, spaceVars, entityVars,
                   boxVars, meshVars, gameVars, loopVars>>

GenChunksAround(p, q) ==
    /\ ~destroyed
    /\ LET gone == Evicted(chunks, p, q)
           ch == [pos \in Coords |-> IF pos \in gone THEN NilChunk
                                     ELSE chunks[pos]]
           ld == GenLoop(0, ch, loading, p, q)
       IN /\ Len(ld) <= MaxTasks
          /\ chunks' = ch
          /\ freed' = freed \cup {chunks[pos].by : pos \in gone}
          /\ loading' = ld
    /\ last' = "GenChunksAround"
    /\ center' = <<p, q>>
    /\ UNCHANGED <<RenderRadius, destroyed, spaceVars, entityVars, boxVars, meshVars,
                   gameVars, loopVars>>

(***************************************************************************)
(* World.Update, World.handleFinishedTask                                  *)
(***************************************************************************)
\* Variant: a remesh result for a missing chunk builds the chunk anew.
handleFinishedTask_resurrect(ch, i, r) ==
    [chunks |-> [ch EXCEPT ![<<r.p, r.q>>] =
                    uploadChunk([newChunk(i) EXCEPT !.Blocks = r.blocks],
                                i, r.vertices)],
     outcome |-> IF r.kind = "load" THEN "new" ELSE "upload"]

handleFinishedTask(ch, i, r) ==
    LET pos == <<r.p, r.q>>
        chunk == FindChunk(ch, r.p, r.q)
    IN IF r.kind = "load"
       THEN [chunks |-> [ch EXCEPT ![pos] =
                            uploadChunk([newChunk(i) EXCEPT !.Blocks = r.blocks],
                                        i, r.vertices)],
             outcome |-> "new"]
       ELSE IF chunk = NilChunk
       THEN [chunks |-> ch, outcome |-> "drop"]
       ELSE [chunks |-> [ch EXCEPT ![pos] = uploadChunk(chunk, i, r.vertices)],
             outcome |-> "upload"]

\* Variant: a channel keeps yielding its result after it was received.
Ready_again(t) == t.pc \in {"send", "done"} /\ ~t.closed

\* The non-blocking select on channel i: a result is received only when the
\* goroutine is blocked in its send.
Ready(t) == t.pc = "send" /\ ~t.closed

RECURSIVE UpdateLoop(_, _, _)
\* Variant: the loop ends after the first result it receives.
UpdateLoop_first(i, ch, ld) ==
    IF i > Len(ld) THEN [chunks |-> ch, loading |-> ld]
    ELSE IF Ready(ld[i])
    THEN LET r == handleFinishedTask(ch, i, ld[i])
         IN [chunks |-> r.chunks,
             loading |-> [ld EXCEPT ![i].pc = "done", ![i].outcome = r.outcome]]
    ELSE UpdateLoop(i + 1, ch, ld)

UpdateLoop(i, ch, ld) ==
    IF i > Len(ld) THEN [chunks |-> ch, loading |-> ld]
    ELSE IF Ready(ld[i])
    THEN LET r == handleFinishedTask(ch, i, ld[i])
         IN UpdateLoop(i + 1, r.chunks,
                       [ld EXCEPT ![i].pc = "done", ![i].outcome = r.outcome])
    ELSE UpdateLoop(i + 1, ch, ld)

Update ==
    /\ ~destroyed
    /\ LET r == UpdateLoop(1, chunks, loading)
       IN /\ chunks' = r.chunks
          /\ loading' = r.loading
    /\ last' = "Update"
    /\ UNCHANGED <<RenderRadius, destroyed, freed, center, spaceVars,
                   entityVars, boxVars, meshVars, gameVars, loopVars>>

(***************************************************************************)
(* The goroutines spawned by genChunk and regenChunk.                      *)
(***************************************************************************)
\* Variant: a remesh reads the grid of the live chunk.
WorkerResult_live(t) ==
    LET blocks == IF t.kind = "load" THEN genBlocks(t.p, t.q)
                  ELSE FindChunk(chunks, t.p, t.q).Blocks
    IN [t EXCEPT !.pc = "send", !.blocks = blocks,
                 !.vertices = genVertices(blocks)]

\* The computation up to the send statement.
WorkerResult(t) ==
    LET blocks == IF t.kind = "load" THEN genBlocks(t.p, t.q) ELSE t.blocks
    IN [t EXCEPT !.pc = "send", !.blocks = blocks,
                 !.vertices = genVertices(blocks)]

\* Variant: the goroutine uploads its vertices into the chunk itself.
Worker_upload(i) ==
    /\ loading[i].pc = "run"
    /\ loading' = [loading EXCEPT ![i] = WorkerResult(loading[i])]
    /\ chunks' = [chunks EXCEPT ![<<loading[i].p, loading[i].q>>] =
                     IF @ = NilChunk THEN @
                     ELSE uploadChunk(@, i, loading'[i].vertices)]
    /\ last' = "Worker"
    /\ UNCHANGED <<RenderRadius, destroyed, freed, center, spaceVars,
                   entityVars, boxVars, meshVars, gameVars, loopVars>>

Worker(i) ==
    /\ loading[i].pc = "run"
    /\ loading' = [loading EXCEPT ![i] = WorkerResult(loading[i])]
    /\ last' = "Worker"
    /\ UNCHANGED <<RenderRadius, chunks, destroyed, freed, center, spaceVars,
                 entityVars, boxVars, meshVars, gameVars, loopVars>>

\* A send on a closed channel panics.
WorkerSendClosed(i) ==
    /\ loading[i].pc = "send"
    /\ loading[i].closed
    /\ loading' = [loading EXCEPT ![i].pc = "panic"]
    /\ last' = "WorkerSendClosed"
    /\ UNCHANGED <<RenderRadius, chunks, destroyed, freed, center, spaceVars,
                 entityVars, boxVars, meshVars, gameVars, loopVars>>

(***************************************************************************)
(* World.Destroy                                                           *)
(***************************************************************************)
Destroy ==
    /\ ~destroyed
    /\ destroyed' = TRUE
    /\ loading' = [i \in 1..Len(loading) |-> [loading[i] EXCEPT !.closed = TRUE]]
    /\ freed' = freed \cup {chunks[pos].by : pos \in {c \in Coords : chunks[c] # NilChunk}}
    /\ chunks' = [pos \in Coords |-> NilChunk]
    /\ last' = "Destroy"
    /\ UNCHANGED <<RenderRadius, center, spaceVars, entityVars, boxVars, meshVars,
                   gameVars, loopVars>>

(***************************************************************************)
(* float32.  A float32 is modelled by the integer count of units of        *)
(* 2^-24 it holds; sums and differences are exact and then rounded to 24   *)
(* significant bits, ties to even, as the hardware does.  Values below     *)
(* 2^-24 in magnitude and bits below 2^-24 are not represented.            *)
(***************************************************************************)
Unit == 2^24
Mantissa == 2^24

Abs(n) == IF n < 0 THEN -n ELSE n

\* The spacing of the float32 values at magnitude n >= 0.
RECURSIVE Ulp(_)
Ulp(n) == IF n < Mantissa THEN 1 ELSE 2 * Ulp(n \div 2)

RoundTo(n, step) ==
    LET q == n \div step
        r == n % step
    IN IF 2 * r < step THEN q * step
       ELSE IF 2 * r > step THEN (q + 1) * step
       ELSE IF q % 2 = 0 THEN q * step ELSE (q + 1) * step

Round24(n) == IF n < 0 THEN -RoundTo(-n, Ulp(-n)) ELSE RoundTo(n, Ulp(n))

\* float32(n) for an int n.
Float32(n) == Round24(n)

FAdd(a, b) == Round24(a + b)
FSub(a, b) == Round24(a - b)

\* a * b, the product of two values of at most 8.0 in magnitude.
FMul(a, b) ==
    LET A == Abs(a)
        B == Abs(b)
        AH == A \div 4096
        AL == A % 4096
        BH == B \div 4096
        BL == B % 4096
        mid == AH * BL + AL * BH
        frac == (mid % 4096) * 4096 + AL * BL
        q == AH * BH + (mid \div 4096) + (frac \div Unit)
        r == frac % Unit
        m == IF 2 * r < Unit THEN q
             ELSE IF 2 * r > Unit THEN q + 1
             ELSE q + (q % 2)
    IN IF (a < 0) = (b < 0) THEN Round24(m) ELSE -Round24(m)

\* math.Nextafter32(x, +Inf) and math.Nextafter32(x, -Inf).
NextUp(x) == IF x >= 0 THEN x + Ulp(x) ELSE -((-x) - Ulp((-x) - 1))
NextDown(x) == -NextUp(-x)

\* math32.Floor followed by the conversion to int.
Floor(x) == x \div Unit

(***************************************************************************)
(* ToWorldSpace, ToChunkSpace                                              *)
(***************************************************************************)
ToWorldSpace(wx, wy, wz) == <<Floor(wx), Floor(wy), Floor(wz)>>

\* Go's % operator truncates towards zero.
GoMod(a, b) == IF a >= 0 THEN a % b ELSE -((-a) % b)

ToChunkSpace(wx, wy, wz) ==
    LET p == Float32(wx) \div ChunkWidth
        q == Float32(wz) \div ChunkDepth
        x0 == GoMod(wx, ChunkWidth)
        z0 == GoMod(wz, ChunkDepth)
        x == IF x0 < 0 THEN x0 + ChunkWidth ELSE x0
        z == IF z0 < 0 THEN z0 + ChunkDepth ELSE z0
    IN <<p, q, x, wy, z>>

ToChunkSpaceCall ==
    /\ cspace = <<>>
    /\ cspace' = ToChunkSpace(wpos[1], wpos[2], wpos[3])
    /\ last' = "ToChunkSpace"
    /\ UNCHANGED <<worldVars, wpos, entityVars, boxVars, meshVars,
                   gameVars, loopVars>>

(***************************************************************************)
(* AABB                                                                    *)
(***************************************************************************)
Zero3 == <<0, 0, 0>>

Min(a, k) == FSub(a.Center[k], a.Size[k] \div 2)
Max(a, k) == FAdd(a.Center[k], a.Size[k] \div 2)

Offset(a, delta) ==
    [a EXCEPT !.Center = [k \in 1..3 |-> FAdd(a.Center[k], delta[k])]]

\* Variant: boxes that share a boundary plane count as intersecting.
Intersects_closed(a, b) ==
    \A k \in 1..3 : Min(a, k) <= Max(b, k) /\ Max(a, k) >= Min(b, k)

Intersects(a, b) ==
    \A k \in 1..3 : Min(a, k) < Max(b, k) /\ Max(a, k) > Min(b, k)

\* Variant: the comparison of the two penetration depths is the other way
\* round.
Intersection_deeper(a, b, k) ==
    IF FSub(Max(a, k), Min(b, k)) > FSub(Max(b, k), Min(a, k))
    THEN NextUp(FSub(Max(a, k), Min(b, k)))
    ELSE NextDown(FSub(Min(a, k), Max(b, k)))

\* IntersectionX, IntersectionY, IntersectionZ for k = 1, 2, 3.
Intersection(a, b, k) ==
    IF FSub(Max(a, k), Min(b, k)) < FSub(Max(b, k), Min(a, k))
    THEN NextUp(FSub(Max(a, k), Min(b, k)))
    ELSE NextDown(FSub(Min(a, k), Max(b, k)))

\* BlockInfo.AABB: the unit cube of block (x, y, z) of chunk (p, q).
BlockAABB(p, q, x, y, z) ==
    [Center |-> <<FAdd(Float32(p * ChunkWidth + x) * Unit, Unit \div 2),
                  FAdd(Float32(y) * Unit, Unit \div 2),
                  FAdd(Float32(q * ChunkDepth + z) * Unit, Unit \div 2)>>,
     Size |-> <<Unit, Unit, Unit>>]

(***************************************************************************)
(* Entity                                                                  *)
(***************************************************************************)
\* playerMoveSpeed = 0.1, and the player size 0.6 x 1.8 x 0.6, as float32.
playerMoveSpeed == (Unit + 5) \div 10
PlayerSize == <<Round24((6 * Unit + 5) \div 10),
                Round24((18 * Unit + 5) \div 10),
                Round24((6 * Unit + 5) \div 10)>>

\* epsilon := float32(0.00001): |d| < epsilon for a value d on the grid.
BelowEpsilon(d) == Abs(d) <= Unit \div 100000

\* playerLookSpeed = 0.003 as float32, in units of 2^-32.
playerLookSpeed == 12884902

\* float32(n) * lookSpeed for the mouse delta n, rounded once.
MulLookSpeed(n) ==
    LET a == Abs(n)
        nh == a \div 256
        nl == a % 256
        mh == playerLookSpeed \div 256
        ml == playerLookSpeed % 256
        I == nh * playerLookSpeed + nl * mh + ((nl * ml) \div 256)
        r == (nl * ml) % 256
        u == Ulp(I)
        rem == I % u
        v == IF u = 1
             THEN I + (IF r > 128 \/ (r = 128 /\ I % 2 = 1) THEN 1 ELSE 0)
             ELSE IF 2 * rem < u THEN I - rem
             ELSE IF 2 * rem > u \/ r > 0 THEN I - rem + u
             ELSE IF ((I - rem) \div u) % 2 = 0 THEN I - rem ELSE I - rem + u
    IN IF n >= 0 THEN v ELSE -v

\* float32(math.Pi / 2.0), and epsilon := float32(0.0001) of Look.
HalfPi == 26353590

LookEpsilon == (Unit + 5000) \div 10000

\* Variant: a value beyond a limit is set to the pole behind the limit.
Clamp_poles(value, min, max) ==
    IF value < min THEN -HalfPi
    ELSE IF value > max THEN HalfPi
    ELSE value

Clamp(value, min, max) ==
    IF value < min THEN min
    ELSE IF value > max THEN max
    ELSE value

\* math32.Sincos for the angles the rotations of the model take: the sine
\* and the cosine rounded to float32.
Sincos(a) ==
    CASE a = -26353590 -> <<-16777216, -1>>
       [] a = -26351912 -> <<-16777216, 1677>>
       [] a = -3847078 -> <<-3813453, 16338071>>
       [] a = 0 -> <<0, 16777216>>
       [] a = 3847078 -> <<3813453, 16338071>>
       [] a = 12884902 -> <<11655099, 12067877>>
       [] a = 25769804 -> <<16767060, 583667>>
       [] a = 26351912 -> <<16777216, 1677>>
       [] a = 26353590 -> <<16777216, -1>>
       [] a = 38654704 -> <<12466046, -11228209>>
       [] a = 51539608 -> <<1166628, -16736605>>
       [] a = 64424512 -> <<-10787731, -12849118>>
       [] a = 77309416 -> <<-16685888, -1748173>>
       [] a = 90194320 -> <<-13216635, 10334192>>

updateAxes(e) ==
    LET sx == Sincos(e.Rotation[1])
        sy == Sincos(e.Rotation[2])
    IN [e EXCEPT !.forward = <<sx[1], 0, -sx[2]>>,
                 !.right = <<sx[2], 0, sx[1]>>,
                 !.up = <<0, Unit, 0>>,
                 !.Sight = <<FMul(sy[2], -sx[1]), sy[1], FMul(sy[2], sx[2])>>]

NewEntity(aabb, rotation) ==
    updateAxes([AABB |-> aabb, Rotation |-> rotation, Sight |-> Zero3,
                forward |-> Zero3, right |-> Zero3, up |-> Zero3,
                moveDelta |-> Zero3])

NewPlayer(c, rotation) ==
    updateAxes(NewEntity([Center |-> c, Size |-> PlayerSize], rotation))

VAdd(a, b) == [k \in 1..3 |-> FAdd(a[k], b[k])]
VMul(a, c) == [k \in 1..3 |-> FMul(a[k], c)]

\* The world-space vector of a Move call.
worldDelta(e, delta) ==
    LET fwd == VMul(e.forward, FMul(delta[3], playerMoveSpeed))
        rgt == VMul(e.right, FMul(delta[1], playerMoveSpeed))
        upw == VMul(e.up, FMul(delta[2], playerMoveSpeed))
    IN VAdd(fwd, VAdd(rgt, upw))

\* Entity.Move
MoveEntity(e, delta) ==
    [e EXCEPT !.moveDelta = VAdd(e.moveDelta, worldDelta(e, delta))]

\* Entity.Look
\* Variant: the basis is not recalculated.
LookEntity_stale(e, delta) ==
    LET x == FAdd(e.Rotation[1], MulLookSpeed(delta[1]))
        y == FAdd(e.Rotation[2], MulLookSpeed(delta[2]))
    IN [e EXCEPT !.Rotation =
           <<x, Clamp(y, FAdd(-HalfPi, LookEpsilon),
                      FSub(HalfPi, LookEpsilon))>>]

LookEntity(e, delta) ==
    LET x == FAdd(e.Rotation[1], MulLookSpeed(delta[1]))
        y == FAdd(e.Rotation[2], MulLookSpeed(delta[2]))
    IN updateAxes([e EXCEPT !.Rotation =
                      <<x, Clamp(y, FAdd(-HalfPi, LookEpsilon),
                                 FSub(HalfPi, LookEpsilon))>>])

\* Entity.resolveCollision
resolveCollision(a, other, k) ==
    IF ~Intersects(a, other) THEN a
    ELSE Offset(a, [i \in 1..3 |-> IF i = k THEN -Intersection(a, other, k)
                                   ELSE 0])

\* Variant: a cell of a chunk that is not loaded counts as solid.
resolveBlockCollision_solid(a, ch, k, x, y, z) ==
    LET cs == ToChunkSpace(x, y, z)
        chunk == FindChunk(ch, cs[1], cs[2])
        block == At(chunk.Blocks, cs[3], cs[4], cs[5])
        aabb == BlockAABB(cs[1], cs[2], cs[3], cs[4], cs[5])
    IN IF chunk = NilChunk \/ chunk.Blocks = NilBlocks
       THEN resolveCollision(a, aabb, k)
       ELSE IF block = -1 THEN a
       ELSE IF ~Collidable(block) THEN a
       ELSE resolveCollision(a, aabb, k)

\* Entity.resolveBlockCollision
resolveBlockCollision(a, ch, k, x, y, z) ==
    LET cs == ToChunkSpace(x, y, z)
        chunk == FindChunk(ch, cs[1], cs[2])
        block == At(chunk.Blocks, cs[3], cs[4], cs[5])
    IN IF chunk = NilChunk \/ chunk.Blocks = NilBlocks THEN a
       ELSE IF block = -1 THEN a
       ELSE IF ~Collidable(block) THEN a
       ELSE resolveCollision(a, BlockAABB(cs[1], cs[2], cs[3], cs[4], cs[5]), k)

\* Entity.resolveBlockCollisions: the cells from lo to hi, x outermost.
RECURSIVE CollideLoop(_, _, _, _, _, _)
CollideLoop(j, a, ch, k, lo, hi) ==
    LET ny == hi[2] - lo[2] + 1
        nz == hi[3] - lo[3] + 1
        x == lo[1] + (j \div (ny * nz))
        y == lo[2] + ((j \div nz) % ny)
        z == lo[3] + (j % nz)
    IN IF x > hi[1] THEN a
       ELSE CollideLoop(j + 1, resolveBlockCollision(a, ch, k, x, y, z),
                        ch, k, lo, hi)

resolveBlockCollisions(a, ch, k) ==
    CollideLoop(0, a, ch, k,
                ToWorldSpace(Min(a, 1), Min(a, 2), Min(a, 3)),
                ToWorldSpace(Max(a, 1), Max(a, 2), Max(a, 3)))

\* Variant: every pass offsets the box by the whole delta.
AxisPass_whole(e, ch, k) ==
    [e EXCEPT !.AABB = resolveBlockCollisions(Offset(e.AABB, e.moveDelta),
                                              ch, k)]

\* One iteration of the loop over the axes.
AxisPass(e, ch, k) ==
    [e EXCEPT !.AABB =
        resolveBlockCollisions(
            Offset(e.AABB, [i \in 1..3 |-> IF i = k THEN e.moveDelta[i] ELSE 0]),
            ch, k)]

\* Entity.ApplyMovementAndResolveCollisions
ApplyMovementAndResolveCollisions(e, ch) ==
    IF /\ BelowEpsilon(e.moveDelta[1])
       /\ BelowEpsilon(e.moveDelta[2])
       /\ BelowEpsilon(e.moveDelta[3])
    THEN e
    ELSE [AxisPass(AxisPass(AxisPass(e, ch, 1), ch, 2), ch, 3)
             EXCEPT !.moveDelta = Zero3]

\* The local deltas handed to Move: full deflection along one axis, and a
\* slight forward-right intent.
LocalDeltas ==
    {<<Unit, 0, 0>>, <<0, -Unit, 0>>, <<0, 0, Unit>>, <<-Unit, 0, 0>>,
     <<Unit \div 16384, 0, Unit \div 16384>>}

Move(delta) ==
    /\ moves + looks + ticks < MaxCalls
    /\ entity' = MoveEntity(entity, delta)
    /\ pending' = VAdd(pending, worldDelta(entity, delta))
    /\ moves' = moves + 1
    /\ last' = "Move"
    /\ UNCHANGED <<worldVars, boxVars, meshVars, spaceVars, ticks, looks,
                   gameVars, loopVars>>

\* The mouse deltas handed to Look.
LookDeltas == {<<256, 0>>, <<0, 600>>, <<0, -600>>}

Look(delta) ==
    /\ moves + looks + ticks < MaxCalls
    /\ entity' = LookEntity(entity, delta)
    /\ looks' = looks + 1
    /\ last' = "Look"
    /\ UNCHANGED <<worldVars, boxVars, meshVars, spaceVars, moves, ticks, pending,
                   gameVars, loopVars>>

Step ==
    /\ moves + looks + ticks < MaxCalls
    /\ entity' = ApplyMovementAndResolveCollisions(entity, chunks)
    /\ pending' = Zero3
    /\ ticks' = ticks + 1
    /\ last' = "ApplyMovementAndResolveCollisions"
    /\ UNCHANGED <<worldVars, boxVars, meshVars, spaceVars, moves, looks,
                   gameVars, loopVars>>

(***************************************************************************)
(* World.New                                                               *)
(***************************************************************************)
EmptyChunks == [pos \in Coords |-> NilChunk]

WorldInit ==
    /\ RenderRadius \in 1..MaxRadius
    /\ chunks = EmptyChunks
    /\ loading = <<>>
    /\ destroyed = FALSE
    /\ freed = {}
    /\ last = "New"
    /\ center = <<0, 0>>

\* game.New: the player starts at (0, 5, 0) with rotation (0, 0).
SpaceIdle == wpos = Zero3 /\ cspace = <<>>
EntityIdle ==
    /\ entity = NewPlayer(<<0, 5 * Unit, 0>>, <<0, 0>>)
    /\ moves = 0
    /\ ticks = 0
    /\ looks = 0
    /\ pending = Zero3

BoxIdle ==
    /\ box = [Center |-> Zero3, Size |-> PlayerSize]
    /\ obstacle = BlockAABB(0, 0, 0, 0, 0)
    /\ axis = 1
    /\ hits = 0
    /\ overlap = <<>>

MeshIdle ==
    /\ mgrid = NilBlocks
    /\ mcell = Zero3
    /\ mfaces = <<>>
    /\ mcount = <<>>

GameIdle ==
    /\ gpc = "world"
    /\ fed = 0

LoopIdle ==
    /\ lpc = "time"
    /\ lag = 0
    /\ lag0 = 0
    /\ nupd = 0
    /\ frames = 0

Init ==
    /\ WorldInit
    /\ SpaceIdle
    /\ EntityIdle
    /\ BoxIdle
    /\ MeshIdle
    /\ GameIdle
    /\ LoopIdle

Next ==
    \/ \E c \in Centers : GenChunksAround(c[1], c[2])
    \/ \E c \in Coords : regenChunk(c[1], c[2])
    \/ Update
    \/ \E i \in 1..Len(loading) : Worker(i)
    \/ \E i \in 1..Len(loading) : WorkerSendClosed(i)
    \/ Destroy

Spec == Init /\ [][Next]_vars

(***************************************************************************)
(* ToChunkSpace on its own: the coordinate is drawn from the ranges around *)
(* zero and around 2^24.                                                   *)
(***************************************************************************)
WorldCoords ==
    (-MaxCoord..MaxCoord) \cup ((Mantissa - MaxCoord)..(Mantissa + MaxCoord))

SpaceInit ==
    /\ WorldInit
    /\ RenderRadius = 1
    /\ EntityIdle
    /\ BoxIdle
    /\ MeshIdle
    /\ GameIdle
    /\ LoopIdle
    /\ wpos \in WorldCoords \X {-1, 0, ChunkHeight} \X {-1, 0, Mantissa + 15}
    /\ cspace = <<>>

SpaceNext == ToChunkSpaceCall

SpaceSpec == SpaceInit /\ [][SpaceNext]_vars

(***************************************************************************)
(* The entity on its own, in a world without chunks or in the world after  *)
(* GenChunksAround(0, 0) with every load finished and received.            *)
(***************************************************************************)
LoadedWorld ==
    LET ld == GenLoop(0, EmptyChunks, <<>>, 0, 0)
    IN UpdateLoop(1, EmptyChunks, [i \in 1..Len(ld) |-> WorkerResult(ld[i])])

\* The last centre is below the grid.
StartCenters ==
    {<<0, 5 * Unit, 0>>, <<Unit \div 2, 4 * Unit, Unit \div 2>>,
     <<Unit \div 2, -3 * Unit, Unit \div 2>>}

\* A grid with the single solid block of cell (0, 0, 0), and the world whose
\* chunk (0, 0) has been given that grid through its Blocks field.
SingleBlock == <<[fill |-> BlockAir, cells |-> {<<0, 0>>}, type |-> BlockStone]>>

BlockWorld ==
    [LoadedWorld EXCEPT !.chunks[<<0, 0>>].Blocks = SingleBlock]

\* An entity above that block with a pending delta of -1.0 on Y, which is
\* what Move(Vec3{0, -10, 0}) accumulates.
DropCenters ==
    {<<Unit \div 2, 4 * Unit, Unit \div 2>>, <<Unit \div 2, 2 * Unit, Unit \div 2>>}

DropDelta == <<0, -Unit, 0>>

\* A pending delta of -3.0 on Y above the loaded terrain, which is what
\* Move(Vec3{0, -30, 0}) accumulates.
FallDelta == <<0, -3 * Unit, 0>>
FallCenter == <<Unit \div 2, 4 * Unit, Unit \div 2>>

EntityInit ==
    /\ RenderRadius = 1
    /\ destroyed = FALSE
    /\ freed = {}
    /\ center = <<0, 0>>
    /\ \/ /\ \/ chunks = EmptyChunks /\ loading = <<>> /\ last = "New"
             \/ /\ chunks = LoadedWorld.chunks
                /\ loading = LoadedWorld.loading
                /\ last = "Update"
          /\ \E c \in StartCenters : entity = NewPlayer(c, <<0, 0>>)
          /\ pending = Zero3
       \/ /\ chunks = BlockWorld.chunks
          /\ loading = BlockWorld.loading
          /\ last = "Move"
          /\ \E c \in DropCenters :
                entity = [NewPlayer(c, <<0, 0>>) EXCEPT !.moveDelta = DropDelta]
          /\ pending = DropDelta
       \/ /\ chunks = LoadedWorld.chunks
          /\ loading = LoadedWorld.loading
          /\ last = "Move"
          /\ entity = [NewPlayer(FallCenter, <<0, 0>>)
                          EXCEPT !.moveDelta = FallDelta]
          /\ pending = FallDelta
    /\ SpaceIdle
    /\ BoxIdle
    /\ MeshIdle
    /\ GameIdle
    /\ LoopIdle
    /\ moves = 0
    /\ ticks = 0
    /\ looks = 0

EntityNext ==
    \/ \E d \in LocalDeltas : Move(d)
    \/ \E d \in LookDeltas : Look(d)
    \/ Step

EntitySpec == EntityInit /\ [][EntityNext]_vars

(***************************************************************************)
(* The boxes on their own: a box of the size of the player next to or      *)
(* inside the box of a block, the two centres apart along one axis only.   *)
(***************************************************************************)
BoxCells == {<<0, 2, 0>>, <<0, 7, 0>>, <<3, 1, 5>>}

BoxDists == {j * (Unit \div 8) : j \in 0..MaxDist}

\* The coordinates of the centre of the box along axis k: at the distances
\* of BoxDists from the centre of the block, and face to face with it.
Along(b, k) ==
    {FSub(b.Center[k], d) : d \in BoxDists}
        \cup {FAdd(b.Center[k], d) : d \in BoxDists}
        \cup {FSub(Min(b, k), PlayerSize[k] \div 2),
              FAdd(Max(b, k), PlayerSize[k] \div 2)}

IntersectsCall ==
    /\ overlap = <<>>
    /\ overlap' = <<Intersects(box, obstacle)>>
    /\ last' = "Intersects"
    /\ UNCHANGED <<worldVars, spaceVars, entityVars, meshVars, box, obstacle, axis,
                   hits, gameVars, loopVars>>

ResolveCall ==
    /\ hits < MaxResolves
    /\ box' = resolveCollision(box, obstacle, axis)
    /\ hits' = hits + 1
    /\ last' = "resolveCollision"
    /\ UNCHANGED <<worldVars, spaceVars, entityVars, meshVars, obstacle, axis, overlap,
                   gameVars, loopVars>>

BoxInit ==
    /\ WorldInit
    /\ RenderRadius = 1
    /\ SpaceIdle
    /\ EntityIdle
    /\ \E c \in BoxCells : obstacle = BlockAABB(0, 0, c[1], c[2], c[3])
    /\ axis \in 1..3
    /\ \E v \in Along(obstacle, axis) :
          box = [Center |-> [k \in 1..3 |-> IF k = axis THEN v
                                            ELSE obstacle.Center[k]],
                 Size |-> PlayerSize]
    /\ hits = 0
    /\ overlap = <<>>
    /\ MeshIdle
    /\ GameIdle
    /\ LoopIdle

BoxNext == IntersectsCall \/ ResolveCall

BoxSpec == BoxInit /\ [][BoxNext]_vars

(***************************************************************************)
(* The mesher on its own: a grid and one of its cells.                     *)
(***************************************************************************)
\* A grid filled with one block type up to the top.
Filled(b, h) == [y \in 1..h |-> Layer(b)]

MeshGrids ==
    {genBlocks(0, 0), Filled(BlockStone, ChunkHeight), SingleBlock,
     <<Layer(BlockStone),
       [fill |-> BlockStone, cells |-> {<<1, 7>>}, type |-> BlockAir]>>,
     <<Layer(BlockAir), Layer(BlockStone)>>}

MeshCells ==
    {0, 1, ChunkWidth - 1} \X {0, 1, 2, 3, ChunkHeight - 1}
        \X {0, 7, ChunkDepth - 1}

genVerticesForBlockCall ==
    /\ mfaces = <<>>
    /\ mfaces' = <<genVerticesForBlock(mgrid, mcell[1], mcell[2], mcell[3])>>
    /\ last' = "genVerticesForBlock"
    /\ UNCHANGED <<worldVars, spaceVars, entityVars, boxVars, mgrid, mcell,
                   mcount, gameVars, loopVars>>

genVerticesCall ==
    /\ mcount = <<>>
    /\ mcount' = <<genVertices(mgrid)>>
    /\ last' = "genVertices"
    /\ UNCHANGED <<worldVars, spaceVars, entityVars, boxVars, mgrid, mcell,
                   mfaces, gameVars, loopVars>>

MeshInit ==
    /\ WorldInit
    /\ RenderRadius = 1
    /\ SpaceIdle
    /\ EntityIdle
    /\ BoxIdle
    /\ mgrid \in MeshGrids
    /\ mcell \in MeshCells
    /\ mfaces = <<>>
    /\ mcount = <<>>
    /\ GameIdle
    /\ LoopIdle

MeshNext == genVerticesForBlockCall \/ genVerticesCall

MeshSpec == MeshInit /\ [][MeshNext]_vars

(***************************************************************************)
(* Game.Update: the world's Update, the collision step of the player, the  *)
(* input controller's Update (Look, then Move), and the camera, which      *)
(* follows the player and keeps no state of the model.                     *)
(***************************************************************************)
\* The mouse motion and the keys held down during a tick.
MouseDeltas == {<<0, 0>>, <<256, 0>>, <<0, 600>>}
KeyDeltas == {<<0, 0, 0>>, <<0, 0, Unit>>, <<Unit, 0, 0>>, <<0, -Unit, 0>>}

GameWorldUpdate ==
    /\ gpc = "world"
    /\ ticks < MaxFrames
    /\ LET r == UpdateLoop(1, chunks, loading)
       IN /\ chunks' = r.chunks
          /\ loading' = r.loading
    /\ gpc' = "step"
    /\ fed' = 0
    /\ last' = "Update"
    /\ UNCHANGED <<RenderRadius, destroyed, freed, center, spaceVars,
                   entityVars, boxVars, meshVars, loopVars>>

GameStep ==
    /\ gpc = "step"
    /\ entity' = ApplyMovementAndResolveCollisions(entity, chunks)
    /\ pending' = Zero3
    /\ ticks' = ticks + 1
    /\ gpc' = "ctrl"
    /\ last' = "ApplyMovementAndResolveCollisions"
    /\ UNCHANGED <<worldVars, spaceVars, boxVars, meshVars, loopVars, moves,
                   looks, fed>>

\* InputCtrl.Update
GameCtrl(mouse, keys) ==
    /\ gpc = "ctrl"
    /\ LET looked == LookEntity(entity, mouse)
       IN /\ entity' = MoveEntity(looked, keys)
          /\ pending' = VAdd(pending, worldDelta(looked, keys))
    /\ looks' = looks + 1
    /\ moves' = moves + 1
    /\ fed' = fed + 2
    /\ gpc' = "world"
    /\ last' = "InputCtrl.Update"
    /\ UNCHANGED <<worldVars, spaceVars, boxVars, meshVars, loopVars, ticks>>

GameInit ==
    /\ RenderRadius = 1
    /\ destroyed = FALSE
    /\ freed = {}
    /\ center = <<0, 0>>
    /\ \/ chunks = EmptyChunks /\ loading = <<>> /\ last = "New"
       \/ /\ chunks = LoadedWorld.chunks
          /\ loading = LoadedWorld.loading
          /\ last = "Update"
    /\ \E c \in StartCenters : entity = NewPlayer(c, <<0, 0>>)
    /\ pending = Zero3
    /\ moves = 0
    /\ ticks = 0
    /\ looks = 0
    /\ SpaceIdle
    /\ BoxIdle
    /\ MeshIdle
    /\ GameIdle
    /\ LoopIdle

GameNext ==
    \/ GameWorldUpdate
    \/ GameStep
    \/ \E mouse \in MouseDeltas, keys \in KeyDeltas : GameCtrl(mouse, keys)

GameSpec == GameInit /\ [][GameNext]_vars

(***************************************************************************)
(* main: the loop with the fixed time step.                                *)
(***************************************************************************)
nsPerTick == (1000 * 1000 * 1000) \div 60

\* The nanoseconds between two readings of the clock.
Elapsed ==
    {0, 1, nsPerTick - 1, nsPerTick, nsPerTick + 1, 3 * nsPerTick + 7}

\* Variant: a lag of exactly one tick is not yet due.
TickDue_late(l) == l > nsPerTick

\* The condition of the inner update loop.
TickDue(l) == l >= nsPerTick

MainElapse(elapsed) ==
    /\ lpc = "time"
    /\ frames < MaxFrames
    /\ lag' = lag + elapsed
    /\ lag0' = lag + elapsed
    /\ nupd' = 0
    /\ lpc' = "update"
    /\ last' = "main"
    /\ UNCHANGED <<worldVars, spaceVars, entityVars, boxVars, meshVars,
                   gameVars, frames>>

MainUpdate ==
    /\ lpc = "update"
    /\ TickDue(lag)
    /\ lag' = lag - nsPerTick
    /\ nupd' = nupd + 1
    /\ last' = "Game.Update"
    /\ UNCHANGED <<worldVars, spaceVars, entityVars, boxVars, meshVars,
                   gameVars, lpc, lag0, frames>>

MainRender ==
    /\ lpc = "update"
    /\ ~TickDue(lag)
    /\ frames' = frames + 1
    /\ lpc' = "time"
    /\ last' = "Game.Render"
    /\ UNCHANGED <<worldVars, spaceVars, entityVars, boxVars, meshVars,
                   gameVars, lag, lag0, nupd>>

LoopInit == Init

LoopNext ==
    \/ \E elapsed \in Elapsed : MainElapse(elapsed)
    \/ MainUpdate
    \/ MainRender

LoopSpec == LoopInit /\ [][LoopNext]_vars

(***************************************************************************)
(* Helpers of the properties.                                              *)
(***************************************************************************)
Pos(t) == <<t.p, t.q>>

\* The entries of ld whose result a call of Update receives, for coordinate c.
ReadyAt(ld, c) == {i \in 1..Len(ld) : Ready(ld[i]) /\ Pos(ld[i]) = c}
ReadyLoadsAt(ld, c) == {i \in ReadyAt(ld, c) : ld[i].kind = "load"}

Latest(S) == CHOOSE m \in S : \A n \in S : n <= m

\* Load tasks for coordinate c that have not delivered their result.
LoadsInFlight(ld, c) ==
    {i \in 1..Len(ld) : ld[i].kind = "load" /\ Pos(ld[i]) = c /\ InFlight(ld[i])}

\* The entries the step appended to World.loading.
Spawned == {i \in 1..Len(loading') : i > Len(loading)}

DeleteRadius == RenderRadius + deleteRadiusFactor

(***************************************************************************)
(* C1: a remesh result never creates a store entry: a coordinate that is   *)
(* absent stays absent over every step unless a load result for it is      *)
(* handled in that step; a remesh result delivered for an absent chunk is  *)
(* dropped.                                                                *)
(***************************************************************************)
C1_RemeshNeverCreates ==
    [][\A c \in Coords :
          /\ (chunks[c] = NilChunk /\ chunks'[c] # NilChunk)
                => (last' = "Update" /\ ReadyLoadsAt(loading, c) # {})
          /\ (last' = "Update" /\ chunks[c] = NilChunk
              /\ ReadyLoadsAt(loading, c) = {})
                => /\ chunks'[c] = NilChunk
                   /\ \A i \in ReadyAt(loading, c) : loading'[i].outcome = "drop"
      ]_vars

\* A remesh result was delivered after its chunk was evicted, and the
\* coordinate is absent.
C1_Witness ==
    /\ last = "Update"
    /\ \E i \in 1..Len(loading) :
          /\ loading[i].kind = "regen"
          /\ loading[i].outcome = "drop"
          /\ chunks[Pos(loading[i])] = NilChunk
          /\ freed # {}

(***************************************************************************)
(* C2: at most one load task per coordinate is outstanding, and none for   *)
(* a coordinate that is loaded.                                            *)
(***************************************************************************)
C2_OneLoadPerCoordinate ==
    \A c \in Coords : Cardinality(LoadsInFlight(loading, c)) <= 1

(***************************************************************************)
(* C3: GenChunksAround evicts a loaded chunk iff its squared distance from *)
(* the centre exceeds (RenderRadius + deleteRadiusFactor)^2.               *)
(***************************************************************************)
C3_EvictIffOutsideDeleteRadius ==
    [][last' = "GenChunksAround" =>
          \A c \in Coords : chunks[c] # NilChunk =>
              (chunks'[c] = NilChunk
                 <=> Dist2(c, center'[1], center'[2]) > DeleteRadius * DeleteRadius)
      ]_vars

(***************************************************************************)
(* C4: no thrashing: a loaded chunk within the render radius of the        *)
(* current centre is never evicted and requested again.                    *)
(***************************************************************************)
C4_NoThrash ==
    [][\A c \in Coords :
          ~ /\ last' = "GenChunksAround"
            /\ chunks[c] # NilChunk
            /\ Dist2(c, center'[1], center'[2]) <= RenderRadius * RenderRadius
            /\ chunks'[c] = NilChunk
            /\ \E i \in Spawned : Pos(loading'[i]) = c
      ]_vars

C6_UpdateNeverWaits ==
    /\ [](~destroyed => ENABLED Update)
    /\ [][last' = "Update" =>
             \A i \in 1..Len(loading) :
                 IF Ready(loading[i])
                 THEN loading'[i].pc = "done" /\ loading'[i].outcome # "none"
                 ELSE loading'[i] = loading[i]
         ]_vars

\* An Update received a result from a channel that sits behind the channel
\* of a task that is still computing.
C6_Witness ==
    /\ last = "Update"
    /\ \E i, j \in 1..Len(loading) :
          i < j /\ loading[i].pc = "run" /\ loading[j].pc = "done"

(***************************************************************************)
(* C7: a load result is always applied: after the Update that receives it  *)
(* the coordinate holds a chunk with the block grid of the (last) load     *)
(* result received for it and the vertex data of the last result received  *)
(* for it, whatever the centre and whether or not a chunk was there.       *)
(***************************************************************************)
C7_LoadResultApplied ==
    [][last' = "Update" =>
          \A c \in Coords : ReadyLoadsAt(loading, c) # {} =>
              LET l == Latest(ReadyLoadsAt(loading, c))
                  m == Latest(ReadyAt(loading, c))
              IN /\ chunks'[c] # NilChunk
                 /\ chunks'[c].by = l
                 /\ chunks'[c].Blocks = loading[l].blocks
                 /\ chunks'[c].Blocks = genBlocks(c[1], c[2])
                 /\ chunks'[c].vbo = m
                 /\ chunks'[c].numVertices
                       = loading[m].vertices \div valuesPerVertex
                 /\ \A i \in ReadyLoadsAt(loading, c) :
                        loading'[i].outcome = "new"
      ]_vars

\* A load result created a chunk at a coordinate whose earlier chunk had
\* been evicted, and which lies outside the delete radius of the centre.
C7_Witness ==
    /\ last = "Update"
    /\ \E c \in Coords :
          /\ chunks[c] # NilChunk
          /\ Dist2(c, center[1], center[2]) > DeleteRadius
          /\ \E k \in freed : k < chunks[c].by /\ Pos(loading[k]) = c

(***************************************************************************)
(* C8: Destroy with tasks outstanding: no goroutine sends on a closed      *)
(* channel, and the store is empty afterwards.                             *)
(***************************************************************************)
C8_DestroyNoFault ==
    /\ \A i \in 1..Len(loading) : loading[i].pc # "panic"
    /\ destroyed => \A c \in Coords : chunks[c] = NilChunk

(***************************************************************************)
(* C9: ToChunkSpace returns a chunk index and a local coordinate with      *)
(* 0 <= x < ChunkWidth and p * ChunkWidth + x = wx (the same for z and q), *)
(* and y = wy; wx = -1 gives p = -1, x = 15.                               *)
(***************************************************************************)
C9_ChunkSpaceRoundTrip ==
    cspace # <<>> =>
        /\ 0 <= cspace[3] /\ cspace[3] < ChunkWidth
        /\ 0 <= cspace[5] /\ cspace[5] < ChunkDepth
        /\ cspace[1] * ChunkWidth + cspace[3] = wpos[1]
        /\ cspace[2] * ChunkDepth + cspace[5] = wpos[3]
        /\ cspace[4] = wpos[2]
        /\ wpos[1] = -1 => (cspace[1] = -1 /\ cspace[3] = 15)

(***************************************************************************)
(* C10: after every call of ApplyMovementAndResolveCollisions the          *)
(* accumulated movement delta is zero, the skipped call included.          *)
(***************************************************************************)
C10_DeltaResetAfterStep ==
    last = "ApplyMovementAndResolveCollisions" => entity.moveDelta = Zero3

(***************************************************************************)
(* C11: Move leaves the AABB and the rotation of the entity as they are    *)
(* and adds its world-space vector to the pending delta, so before a step  *)
(* the pending delta is the sum of the vectors of the Move calls made      *)
(* since the step before, each computed with the basis of its call.        *)
(***************************************************************************)
C11_MoveAccumulates ==
    /\ [](entity.moveDelta = pending)
    /\ [][last' = "Move" => /\ entity'.AABB = entity.AABB
                            /\ entity'.Rotation = entity.Rotation]_vars

(***************************************************************************)
(* C12: after resolveCollision has resolved a collision of the box with    *)
(* the box of a block along one axis, the two boxes do not intersect any   *)
(* more, and a second resolution against the same block leaves the box as  *)
(* it is.                                                                  *)
(***************************************************************************)
C12_ResolvedBoxesApart ==
    [][last' = "resolveCollision" =>
          /\ ~Intersects(box', obstacle)
          /\ hits >= 1 => box' = box]_vars

(***************************************************************************)
(* C13: an entity of size (0.6, 1.8, 0.6) centred at (0.5, 4.0, 0.5) above *)
(* the single solid block of cell (0, 0, 0), with a pending delta of -1.0  *)
(* on Y, has after one step the minimum Y of its AABB at the top of the    *)
(* block: not below it, and at most one float32 step above it.             *)
(***************************************************************************)
DropScenario(c) ==
    /\ chunks[<<0, 0>>].Blocks = SingleBlock
    /\ entity = [NewPlayer(c, <<0, 0>>) EXCEPT !.moveDelta = DropDelta]

RestsOnBlock(e) ==
    LET top == Max(BlockAABB(0, 0, 0, 0, 0), 2)
    IN Min(e.AABB, 2) \in {top, NextUp(top)}

C13_DropOntoBlock ==
    [][(/\ DropScenario(<<Unit \div 2, 4 * Unit, Unit \div 2>>)
        /\ last' = "ApplyMovementAndResolveCollisions")
          => RestsOnBlock(entity')]_vars

\* C13 as amended: the same from the centre (0.5, 2.0, 0.5), from where the
\* delta of -1.0 takes the entity into the block.
C13_DropFromTwo ==
    [][(/\ DropScenario(<<Unit \div 2, 2 * Unit, Unit \div 2>>)
        /\ last' = "ApplyMovementAndResolveCollisions")
          => /\ RestsOnBlock(entity')
             /\ entity'.AABB.Center[1] = Unit \div 2
             /\ entity'.AABB.Center[3] = Unit \div 2
             /\ entity'.moveDelta = Zero3]_vars

C13_Witness ==
    /\ last = "ApplyMovementAndResolveCollisions"
    /\ chunks[<<0, 0>>].Blocks = SingleBlock
    /\ ticks = 1 /\ moves = 0 /\ looks = 0
    /\ Min(entity.AABB, 2) = NextUp(Unit)
    /\ entity.AABB.Center[1] = Unit \div 2
    /\ entity.moveDelta = Zero3

(***************************************************************************)
(* C14: the mesher emits a face of the block of a cell if and only if the  *)
(* block is visible and the cell next to it in the direction of the face   *)
(* is outside of the grid or holds a transparent block; a chunk filled     *)
(* with one opaque block type yields the vertices of the faces on the      *)
(* boundary of the chunk and no others.                                    *)
(***************************************************************************)
\* The content of a cell read off the layers, and the cells of the grid.
Inside(c) ==
    /\ c[1] \in 0..(ChunkWidth - 1)
    /\ c[2] \in 0..(ChunkHeight - 1)
    /\ c[3] \in 0..(ChunkDepth - 1)

Content(g, c) ==
    IF c[2] >= Len(g) THEN BlockAir
    ELSE IF <<c[1], c[3]>> \in g[c[2] + 1].cells THEN g[c[2] + 1].type
    ELSE g[c[2] + 1].fill

Facing(c, face) ==
    CASE face = 1 -> <<c[1] - 1, c[2], c[3]>>
      [] face = 2 -> <<c[1] + 1, c[2], c[3]>>
      [] face = 3 -> <<c[1], c[2] + 1, c[3]>>
      [] face = 4 -> <<c[1], c[2] - 1, c[3]>>
      [] face = 5 -> <<c[1], c[2], c[3] + 1>>
      [] face = 6 -> <<c[1], c[2], c[3] - 1>>

BoundaryFaces ==
    2 * ChunkWidth * ChunkDepth + 2 * ChunkWidth * ChunkHeight
        + 2 * ChunkDepth * ChunkHeight

C14_FaceIffOpenNeighbour ==
    /\ mfaces # <<>> =>
          \A face \in 1..6 :
              face \in mfaces[1] <=>
                  /\ Visible(Content(mgrid, mcell))
                  /\ \/ ~Inside(Facing(mcell, face))
                     \/ Transparent(Content(mgrid, Facing(mcell, face)))
    /\ (mcount # <<>> /\ mgrid = Filled(BlockStone, ChunkHeight)) =>
          mcount[1] = BoundaryFaces * 6 * valuesPerVertex
    /\ mcount # <<>> =>
          \A y \in {0, 1, 2} :
              FacesOfLayer(mgrid, y)
                  = FacesOfCells(mgrid, y, 0, ChunkWidth * ChunkDepth)

C14_Witness ==
    /\ mgrid = Filled(BlockStone, ChunkHeight)
    /\ mcell = <<0, 1, 7>>
    /\ mfaces = <<{1}>>
    /\ mcount # <<>>

(***************************************************************************)
(* C15: after any sequence of calls of Look the pitch lies between         *)
(* -pi/2 + epsilon and pi/2 - epsilon, and is never a pole (pi/2 or        *)
(* -pi/2) itself.                                                          *)
(***************************************************************************)
C15_PitchClamped ==
    looks >= 1 =>
        /\ entity.Rotation[2] >= -HalfPi + (Unit + 5000) \div 10000
        /\ entity.Rotation[2] <= HalfPi - (Unit + 5000) \div 10000
        /\ entity.Rotation[2] # HalfPi
        /\ entity.Rotation[2] # -HalfPi

\* A look up that was cut off at the upper limit, then a look down.
C15_Witness ==
    /\ looks >= 2
    /\ last = "Look"
    /\ entity.Rotation[2]
           = FAdd(HalfPi - (Unit + 5000) \div 10000, MulLookSpeed(-600))

(***************************************************************************)
(* C16: after the construction and after every call of Look the basis is   *)
(* the one of the current yaw: forward = (sin, 0, -cos), right =           *)
(* (cos, 0, sin), up = (0, 1, 0); Move and the step never see a basis of   *)
(* an older yaw.                                                           *)
(***************************************************************************)
C16_BasisOfYaw ==
    LET sc == Sincos(entity.Rotation[1])
    IN /\ entity.forward = <<sc[1], 0, -sc[2]>>
       /\ entity.right = <<sc[2], 0, sc[1]>>
       /\ entity.up = <<0, Unit, 0>>

\* A Move after a turn of 256 mouse units.
C16_Witness ==
    /\ last = "Move"
    /\ looks = 1
    /\ entity.Rotation[1] = MulLookSpeed(256)
    /\ entity.forward = <<11655099, 0, -12067877>>
    /\ entity.moveDelta # Zero3

(***************************************************************************)
(* C17: Intersects is strict.  Two boxes that share a boundary plane do    *)
(* not intersect; two boxes whose extents overlap by a positive length on  *)
(* all three axes do.                                                      *)
(***************************************************************************)
Touching(a, b) ==
    \E k \in 1..3 : Max(a, k) = Min(b, k) \/ Min(a, k) = Max(b, k)

\* The length of the common part of the extents of a and b along axis k.
Common(a, b, k) ==
    LET hi == IF Max(a, k) < Max(b, k) THEN Max(a, k) ELSE Max(b, k)
        lo == IF Min(a, k) > Min(b, k) THEN Min(a, k) ELSE Min(b, k)
    IN hi - lo

C17_IntersectsStrict ==
    [][last' = "Intersects" =>
          /\ Touching(box, obstacle) => overlap' = <<FALSE>>
          /\ (\A k \in 1..3 : Common(box, obstacle, k) > 0)
                 => overlap' = <<TRUE>>
          /\ (\E k \in 1..3 : Common(box, obstacle, k) <= 0)
                 => overlap' = <<FALSE>>]_vars

\* A box standing on the top face of the block, never moved.
C17_Witness ==
    /\ last = "Intersects"
    /\ hits = 0
    /\ axis = 2
    /\ Min(box, 2) = Max(obstacle, 2)
    /\ \A k \in {1, 3} : Common(box, obstacle, k) > 0
    /\ overlap = <<FALSE>>

(***************************************************************************)
(* C18: every load or remesh task sends one result and then terminates: a  *)
(* task that has reached its send leaves it only by having its result      *)
(* received, and a finished task stays finished.                           *)
(***************************************************************************)
C18_TaskSendsOnce ==
    [][\A i \in 1..Len(loading) :
          /\ loading[i].pc = "send" => loading'[i].pc \in {"send", "done"}
          /\ loading[i].pc = "done" => loading'[i].pc = "done"]_vars

(***************************************************************************)
(* C19: isolation.  A step of a worker changes nothing but its own task,   *)
(* and what it computes depends only on its coordinates and on the grid    *)
(* it owns (generated by itself, or the copy handed to it); the chunk map, *)
(* the chunks and the GPU handles change only in steps of the main thread. *)
(***************************************************************************)
WorkerSteps == {"Worker", "WorkerSendClosed"}
MainSteps == {"GenChunksAround", "regenChunk", "Update", "Destroy"}

OwnGrid(t) == IF t.kind = "load" THEN genBlocks(t.p, t.q) ELSE t.blocks

C19_WorkersIsolated ==
    [][/\ last' \in WorkerSteps =>
             /\ UNCHANGED <<chunks, freed, destroyed, RenderRadius, center,
                   gameVars, loopVars>>
             /\ Len(loading') = Len(loading)
             /\ \E i \in 1..Len(loading) :
                   /\ \A j \in 1..Len(loading) :
                         j # i => loading'[j] = loading[j]
                   /\ loading'[i].p = loading[i].p
                   /\ loading'[i].q = loading[i].q
                   /\ loading'[i].kind = loading[i].kind
                   /\ last' = "Worker" =>
                         /\ loading'[i].blocks = OwnGrid(loading[i])
                         /\ loading'[i].vertices
                                = genVertices(OwnGrid(loading[i]))
       /\ (chunks' # chunks \/ freed' # freed) => last' \in MainSteps]_vars

\* A worker has finished its computation while the store holds chunks.
C19_Witness ==
    /\ last = "Worker"
    /\ \E pos \in Coords : chunks[pos] # NilChunk
    /\ \E i \in 1..Len(loading) :
          /\ loading[i].pc = "send"
          /\ loading[i].vertices = genVertices(genBlocks(0, 0))

(***************************************************************************)
(* C20: a remesh task works on the copy of the grid taken by regenChunk:   *)
(* the copy is the grid of the chunk at the time of the request, it stays  *)
(* the same until the task is done, and the result is the mesh of the      *)
(* copy, whether or not the chunk is still loaded; regenChunk for a        *)
(* position without a chunk, or with a chunk without block data, spawns    *)
(* no task.                                                                *)
(***************************************************************************)
C20_RemeshOfSnapshot ==
    [][/\ \A c \in Coords :
             (last' = "regenChunk" /\ Len(loading') > Len(loading)
              /\ loading'[Len(loading')].p = c[1]
              /\ loading'[Len(loading')].q = c[2]) =>
                 /\ loading'[Len(loading')].kind = "regen"
                 /\ chunks[c] # NilChunk
                 /\ chunks[c].Blocks # NilBlocks
                 /\ loading'[Len(loading')].blocks = chunks[c].Blocks
       /\ (last' = "regenChunk"
           /\ \A c \in Coords : \/ chunks[c] = NilChunk
                                \/ chunks[c].Blocks = NilBlocks)
             => loading' = loading
       /\ \A i \in 1..Len(loading) :
             loading[i].kind = "regen" =>
                 /\ loading'[i].blocks = loading[i].blocks
                 /\ (loading[i].pc = "run" /\ loading'[i].pc = "send") =>
                       loading'[i].vertices = genVertices(loading[i].blocks)]_vars

\* A remesh computed after its chunk was evicted.
C20_Witness ==
    /\ last = "Worker"
    /\ Cardinality({i \in 1..Len(loading) : loading[i].pc = "send"}) = 1
    /\ \E i \in 1..Len(loading) :
          /\ loading[i].kind = "regen"
          /\ loading[i].pc = "send"
          /\ chunks[<<loading[i].p, loading[i].q>>] = NilChunk
          /\ loading[i].vertices = genVertices(genBlocks(0, 0))
          /\ loading[i].vertices > 0

(***************************************************************************)
(* C21: the entries of the list of pending channels are removed once       *)
(* their result has been received: the list never holds more channels      *)
(* than there are tasks still in flight.                                   *)
(***************************************************************************)
C21_PendingListPruned ==
    Len(loading) <= Cardinality({i \in 1..Len(loading) : InFlight(loading[i])})

(***************************************************************************)
(* C22: within a tick of Game.Update the Look and the Move of the tick     *)
(* are made before the collision step of the tick.                         *)
(***************************************************************************)
C22_MovesBeforeStep ==
    [][last' = "ApplyMovementAndResolveCollisions" => fed = 2]_vars

(***************************************************************************)
(* C25: in every iteration of the main loop Game.Update is called          *)
(* floor(lag / nsPerTick) times, lag being the lag after the elapsed time  *)
(* was added, then Game.Render once; at the render 0 <= lag < nsPerTick.   *)
(***************************************************************************)
C25_FixedTimeStep ==
    /\ [][last' = "Game.Render" =>
             /\ nupd = lag0 \div nsPerTick
             /\ lag >= 0
             /\ lag < nsPerTick
             /\ lag = lag0 - nupd * nsPerTick
             /\ frames' = frames + 1]_vars
    /\ [][last' = "Game.Update" => lpc = "update" /\ lpc' = "update"]_vars
    /\ [](lag >= 0)

\* Three ticks caught up in one iteration, the remainder kept.
C25_Witness ==
    /\ last = "Game.Render"
    /\ nupd = 3
    /\ lag0 >= 3 * nsPerTick
    /\ lag = lag0 - 3 * nsPerTick
    /\ frames >= 2

(***************************************************************************)
(* C23: the step handles the axes in the order X, Y, Z, and the pass of    *)
(* one axis (the offset and every collision resolution in it) changes      *)
(* only the coordinate of the centre of the box along that axis; the size  *)
(* and the other two coordinates stay as they are.                         *)
(***************************************************************************)
OnlyAxis(a, b, k) ==
    /\ b.AABB.Size = a.AABB.Size
    /\ \A j \in 1..3 : j # k => b.AABB.Center[j] = a.AABB.Center[j]

Moving(e) == \E k \in 1..3 : ~BelowEpsilon(e.moveDelta[k])

C23_AxisByAxis ==
    [][(last' = "ApplyMovementAndResolveCollisions" /\ Moving(entity)) =>
          LET afterX == AxisPass(entity, chunks, 1)
              afterY == AxisPass(afterX, chunks, 2)
              afterZ == AxisPass(afterY, chunks, 3)
          IN /\ OnlyAxis(entity, afterX, 1)
             /\ OnlyAxis(afterX, afterY, 2)
             /\ OnlyAxis(afterY, afterZ, 3)
             /\ entity'.AABB = afterZ.AABB]_vars

\* A step that ran into the stone of the loaded terrain from above.
C23_Witness ==
    /\ last = "ApplyMovementAndResolveCollisions"
    /\ chunks = LoadedWorld.chunks
    /\ moves >= 2
    /\ Min(entity.AABB, 2) \in {3 * Unit, NextUp(3 * Unit)}
    /\ entity.AABB.Size = PlayerSize

(***************************************************************************)
(* C24: cells of chunks that are not loaded and cells outside of the       *)
(* vertical range of the grid are skipped: when no cell the box can touch  *)
(* belongs to the grid of a loaded chunk, one step moves the centre of     *)
(* the box by exactly the accumulated delta.                               *)
(***************************************************************************)
\* No cell between the box and the box moved by the whole delta has a block
\* of a loaded chunk.
Lesser(a, b) == IF a < b THEN a ELSE b
Greater(a, b) == IF a > b THEN a ELSE b

NoLoadedCell(e, ch) ==
    LET a == e.AABB
        b == Offset(a, e.moveDelta)
        lo == ToWorldSpace(Lesser(Min(a, 1), Min(b, 1)),
                           Lesser(Min(a, 2), Min(b, 2)),
                           Lesser(Min(a, 3), Min(b, 3)))
        hi == ToWorldSpace(Greater(Max(a, 1), Max(b, 1)),
                           Greater(Max(a, 2), Max(b, 2)),
                           Greater(Max(a, 3), Max(b, 3)))
    IN \A x \in lo[1]..hi[1], y \in lo[2]..hi[2], z \in lo[3]..hi[3] :
          LET cs == ToChunkSpace(x, y, z)
              chunk == FindChunk(ch, cs[1], cs[2])
          IN \/ chunk = NilChunk
             \/ chunk.Blocks = NilBlocks
             \/ At(chunk.Blocks, cs[3], cs[4], cs[5]) = -1

MovedByDelta(e, f) ==
    \A k \in 1..3 : f.AABB.Center[k] = FAdd(e.AABB.Center[k], e.moveDelta[k])

C24_FreeStepMovesByDelta ==
    [][(last' = "ApplyMovementAndResolveCollisions"
        /\ NoLoadedCell(entity, chunks)) => MovedByDelta(entity, entity')]_vars

\* The same for a delta of which some component reaches the epsilon of the
\* step; a step with a smaller delta leaves the box where it is.
C24_FreeStepMovesOrRests ==
    [][(last' = "ApplyMovementAndResolveCollisions"
        /\ NoLoadedCell(entity, chunks)) =>
          /\ entity'.AABB.Size = entity.AABB.Size
          /\ IF Moving(entity) THEN MovedByDelta(entity, entity')
             ELSE entity'.AABB = entity.AABB]_vars

\* A step below the grid of a loaded chunk that moved the box.
C24_Witness ==
    /\ last = "ApplyMovementAndResolveCollisions"
    /\ chunks = LoadedWorld.chunks
    /\ ticks = 1
    /\ moves = 2
    /\ looks = 0
    /\ entity.moveDelta = Zero3
    /\ Max(entity.AABB, 2) < 0
    /\ entity.AABB.Center # <<Unit \div 2, -3 * Unit, Unit \div 2>>

(***************************************************************************)
(* C26: no chunk is orphaned.  Every chunk that was created (by the        *)
(* result of a load) is either the entry of the store for its position     *)
(* or has been destroyed, and never both.                                  *)
(***************************************************************************)
Created == {i \in 1..Len(loading) : loading[i].outcome = "new"}
Stored == {chunks[pos].by : pos \in {c \in Coords : chunks[c] # NilChunk}}

C26_NoOrphanChunk ==
    /\ \A i \in Created : i \in Stored \/ i \in freed
    /\ Stored \cap freed = {}

(***************************************************************************)
(* C27: the result of a remesh is applied only to the chunk whose grid     *)
(* was copied for it: a chunk whose buffer holds the vertices of a remesh  *)
(* is the chunk the remesh was requested for, not a chunk loaded later at  *)
(* the same position.                                                      *)
(***************************************************************************)
C27_RemeshOfSameChunk ==
    \A pos \in Coords :
        (chunks[pos] # NilChunk /\ loading[chunks[pos].vbo].kind = "regen") =>
            chunks[pos].by = loading[chunks[pos].vbo].src

(***************************************************************************)
(* C28: a box that intersects no collidable block of a loaded chunk        *)
(* before a step intersects none after the step, whatever the accumulated  *)
(* delta is.                                                               *)
(***************************************************************************)
\* The box intersects the box of a collidable block of a loaded chunk.
Colliding(a, ch) ==
    LET lo == ToWorldSpace(Min(a, 1), Min(a, 2), Min(a, 3))
        hi == ToWorldSpace(Max(a, 1), Max(a, 2), Max(a, 3))
    IN \E x \in lo[1]..hi[1], y \in lo[2]..hi[2], z \in lo[3]..hi[3] :
          LET cs == ToChunkSpace(x, y, z)
              chunk == FindChunk(ch, cs[1], cs[2])
              block == At(chunk.Blocks, cs[3], cs[4], cs[5])
          IN /\ chunk # NilChunk
             /\ chunk.Blocks # NilBlocks
             /\ block # -1
             /\ Collidable(block)
             /\ Intersects(a, BlockAABB(cs[1], cs[2], cs[3], cs[4], cs[5]))

C28_StaysOutOfBlocks ==
    [][(last' = "ApplyMovementAndResolveCollisions"
        /\ ~Colliding(entity.AABB, chunks)) =>
            ~Colliding(entity'.AABB, chunks)]_vars

(***************************************************************************)
(* C29: every result is handled exactly once.  A result that waits in its  *)
(* send stays there until an Update receives it, as long as the world is   *)
(* not destroyed; it is received by Update only, which handles it; a       *)
(* channel whose result was received yields nothing afterwards: the task   *)
(* stays as it is, and an Update with no waiting result changes nothing    *)
(* in the store.                                                           *)
(***************************************************************************)
Waiting(t) == t.pc = "send"

C29_HandledOnce ==
    [][/\ \A i \in 1..Len(loading) :
             /\ (Waiting(loading[i]) /\ ~destroyed') =>
                   \/ loading'[i] = loading[i]
                   \/ /\ last' = "Update"
                      /\ loading'[i].pc = "done"
                      /\ loading'[i].outcome \in {"new", "upload", "drop"}
             /\ loading[i].pc = "done" =>
                   /\ loading'[i].pc = "done"
                   /\ loading'[i].outcome = loading[i].outcome
             /\ loading[i].pc = "run" => loading'[i].pc # "done"
       /\ (last' = "Update" /\ \A i \in 1..Len(loading) : ~Waiting(loading[i]))
             => chunks' = chunks
       /\ last' = "Update" =>
             \A i \in 1..Len(loading) :
                 Waiting(loading[i]) => loading'[i].pc = "done"]_vars

\* A remesh whose result was received in a later Update than the result of
\* the load of its chunk.
C29_Witness ==
    /\ last = "Update"
    /\ ~destroyed
    /\ \E i, j \in 1..Len(loading) :
          /\ loading[i].kind = "load" /\ loading[i].outcome = "new"
          /\ loading[j].kind = "regen" /\ loading[j].src = i
          /\ loading[j].pc = "done" /\ loading[j].outcome = "upload"
          /\ chunks[<<loading[j].p, loading[j].q>>].vbo = j

(***************************************************************************)
(* The world of a player that stays in one chunk: every tick polls the     *)
(* channels and reconciles around the same centre, and the goroutines of   *)
(* the tasks run in between.  Each poll, each reconcile pass and each      *)
(* goroutine is scheduled again and again.                                 *)
(***************************************************************************)
LiveInit ==
    /\ RenderRadius \in 1..MaxRadius
    /\ chunks = EmptyChunks
    /\ loading = <<>>
    /\ destroyed = FALSE
    /\ freed = {}
    /\ last = "New"
    /\ center \in Centers
    /\ SpaceIdle
    /\ EntityIdle
    /\ BoxIdle
    /\ MeshIdle
    /\ GameIdle
    /\ LoopIdle

Reconcile == GenChunksAround(center[1], center[2])

\* A goroutine that can take its step can take it until it does, so the
\* scheduler, which leaves no runnable goroutine behind for ever, takes a
\* step of some goroutine as long as one can be taken.
Goroutines == \E i \in 1..Len(loading) : Worker(i)

LiveNext ==
    \/ Update
    \/ Reconcile
    \/ Goroutines

\* FindChunk returns a chunk that holds its block data.
Loaded(c) == chunks[c] # NilChunk /\ chunks[c].Blocks # NilBlocks

\* The coordinates the reconcile pass around the centre visits.
InRadius(c) ==
    InRenderRadius(c[1] - center[1], c[2] - center[2])

\* Some coordinate in range has neither a chunk nor a load on its way.  The
\* pass that is called on every tick is in particular called while this
\* lasts.
Unstarted ==
    \E c \in Coords :
        /\ InRadius(c)
        /\ chunks[c] = NilChunk
        /\ \A i \in 1..Len(loading) :
               ~(loading[i].kind = "load" /\ Pos(loading[i]) = c)

LiveSpec ==
    /\ LiveInit
    /\ [][LiveNext]_vars
    /\ WF_vars(Update)
    /\ WF_vars(Unstarted /\ Reconcile)
    /\ WF_vars(Goroutines)

====
